---------------------------- MODULE Spec2Model ----------------------------
(***************************************************************************)
(* A model of backend/server.py of the trade simulator: the order book     *)
(* (OrderBook), the rolling performance windows (PerformanceTracker), the  *)
(* simulator's snapshot reference and simulate entry point                 *)
(* (TradeSimulator) and the feed task (connect_to_okx / use_mock_data).    *)
(*                                                                         *)
(* Numbers.  Feed tokens are decimal strings; float() is modelled by the   *)
(* table DecimalStrings (a token outside the table does not parse).        *)
(* Prices, sizes and depths are the parsed integers; quotients (mid_price, *)
(* spread_pct) and the simulator's quantities, rates, costs and fractions  *)
(* are exact rationals [num, den] in lowest terms.                         *)
(*                                                                         *)
(* Scheduling.  The server runs on one asyncio event loop.                 *)
(* OrderBook.update, set_orderbook, track_update and simulate contain no   *)
(* await, so each handler below is one atomic action.                      *)
(* ConnectionManager.broadcast awaits each send_text: the clients'         *)
(* handlers run between two sends, so each send is an action of its own.   *)
(*                                                                         *)
(* Specifications.  Spec is the server: the feed task up to its broadcast  *)
(* call and simulate calls with the default request.  SpecTracker,         *)
(* SpecSlippage and SpecFees call one class on its own over all its        *)
(* inputs; SpecSimulate makes one simulate call, for any request, on each  *)
(* snapshot a first record leaves.  SpecBroadcast is the ConnectionManager *)
(* on its own, its broadcasts interleaved with clients that connect and    *)
(* disconnect; the message is opaque to it.  SpecFeed is the feed task     *)
(* alone, with the fairness of the event loop.                             *)
(***************************************************************************)
EXTENDS Integers, Sequences, FiniteSets, TLC

VARIABLES
    orderbook,        \* the module-level OrderBook object (line 516): its fields
    sim_orderbook,    \* trade_simulator.orderbook: "None" or a reference to that object
    tracker,          \* trade_simulator.performance_tracker: its fields
    now,              \* the value time.time() returns
    feed_pc,          \* where the feed task (connect_to_okx) stands
    data,             \* the feed task's local `data`: the last record handed to update
    accepted,         \* what OrderBook.update returned for `data`
    result,           \* the response of the last simulate call (<<>> before the first)
    installed,        \* history: the snapshot's fields at the last set_orderbook
    n_received,       \* history: feed messages received so far
    n_accepted,       \* history: updates that returned True so far
    n_simulate,       \* history: simulate calls so far
    pushed_processing,\* history: every sample given to track_processing, in order
    pushed_updates,   \* history: every interval recorded by track_update, in order
    call,             \* history: the arguments of the last call of simulate or of a
                      \* model on its own (<<>> before the first)
    one_sided_only,   \* history: no accepted update so far had levels on both sides
    n_connections,    \* history: websockets accepted so far (each is a new object)
    active_connections, \* manager.active_connections: the websockets, in list order
    broadcast_it,     \* the running broadcast: its message, the list iterator of
                      \* line 83 and the connection whose send_text is awaited
                      \* (<<>> when no broadcast runs)
    delivery          \* history of the last broadcast: its number, the connections
                      \* in the list since it began, those that received its
                      \* message and those whose send raised

vars == <<orderbook, sim_orderbook, tracker, now, feed_pc, data, accepted, result,
          installed, n_received, n_accepted, n_simulate, pushed_processing,
          pushed_updates, call, one_sided_only, n_connections, active_connections,
          broadcast_it, delivery>>

\* the variables of the ConnectionManager and of its broadcast
manager_vars == <<n_connections, active_connections, broadcast_it, delivery>>

-----------------------------------------------------------------------------
(* Bounds of the model *)

MaxClients == 3       \* websockets accepted in a run
MaxBroadcasts == 2    \* broadcasts begun in a run
MaxLevels == 2        \* a generic feed record carries at most this many levels in all
MaxRecords == 2       \* feed messages received in one run
MaxSimulate == 1      \* simulate calls in one run
MaxClock == 2         \* the clock of the tracker alone takes the values 0..MaxClock
MaxWindow == 3        \* window sizes 1..MaxWindow are tried for the tracker alone
MaxSamples == 5       \* samples pushed into each window of the tracker alone
MaxDuration == 1      \* processing durations 0..MaxDuration for the tracker alone

(* Program constants *)

DepthLevels == 10          \* self.asks[:10], self.bids[:10]
DefaultWindowSize == 100   \* PerformanceTracker(window_size=100)
MockLevels == 10           \* range(10) in use_mock_data

-----------------------------------------------------------------------------
(* Exact rationals *)

Abs(x) == IF x < 0 THEN -x ELSE x

Min(a, b) == IF a <= b THEN a ELSE b

RECURSIVE GCD(_, _)
GCD(a, b) == IF b = 0 THEN a ELSE GCD(b, a % b)

\* n/d in lowest terms with a positive denominator (d # 0)
Rat(n, d) ==
    LET g == GCD(Abs(n), Abs(d))
        s == IF d < 0 THEN -1 ELSE 1
    IN  [num |-> (s * n) \div g, den |-> (s * d) \div g]

RatZero == [num |-> 0, den |-> 1]

RatMul(x, y) == Rat(x.num * y.num, x.den * y.den)

\* x / y, y # 0
RatDiv(x, y) == Rat(x.num * y.den, x.den * y.num)

RatInt(n) == [num |-> n, den |-> 1]

RatAdd(x, y) == Rat(x.num * y.den + y.num * x.den, x.den * y.den)

RatSub(x, y) == Rat(x.num * y.den - y.num * x.den, x.den * y.den)

RatLe(x, y) == x.num * y.den <= y.num * x.den

RatLt(x, y) == x.num * y.den < y.num * x.den

RatMax(x, y) == IF RatLt(x, y) THEN y ELSE x

RatMin(x, y) == IF RatLt(y, x) THEN y ELSE x

-----------------------------------------------------------------------------
(* float(token) *)

DecimalStrings ==
    << "0", "1", "2", "3", "4", "5", "6", "7", "8", "9", "10", "11", "12",
       "13", "14", "15", "16", "17", "18", "19", "20", "21", "22", "23", "24" >>

\* str(n) for the numbers the mock generator produces
str(n) == DecimalStrings[n + 1]

\* float(tok) raises ValueError unless tok is a decimal string
float_raises(tok) == \A i \in DOMAIN DecimalStrings : DecimalStrings[i] # tok

float(tok) == (CHOOSE i \in DOMAIN DecimalStrings : DecimalStrings[i] = tok) - 1


-----------------------------------------------------------------------------
(* OrderBook *)

\* OrderBook.__init__
OrderBookInit ==
    [ timestamp |-> "", asks |-> <<>>, bids |-> <<>>, mid_price |-> RatZero,
      spread_pct |-> RatZero, ask_depth |-> 0, bid_depth |-> 0,
      last_update_time |-> 0 ]

\* `for price, size in side`: unpacking a level that is not a pair raises, and so
\* does float() of a token that is not a number
levels_raise(side) ==
    \E i \in DOMAIN side :
        \/ Len(side[i]) # 2
        \/ float_raises(side[i][1])
        \/ float_raises(side[i][2])

\* [(float(price), float(size)) for price, size in side]
parse_levels(side) == [i \in DOMAIN side |-> <<float(side[i][1]), float(side[i][2])>>]

\* sorted with reverse=True forgotten: both sides ascending
RECURSIVE sorted_ascending(_, _)
sorted_ascending(levels, sign) ==
    IF levels = <<>> THEN <<>>
    ELSE LET n    == Len(levels)
             init == sorted_ascending(SubSeq(levels, 1, n - 1), sign)
             x    == levels[n]
             k    == Cardinality({i \in DOMAIN init : init[i][1] <= x[1]})
         IN  SubSeq(init, 1, k) \o <<x>> \o SubSeq(init, k + 1, Len(init))

\* list.sort(key=lambda x: x[0]) for sign = 1 and list.sort(key=..., reverse=True)
\* for sign = -1: a stable sort, equal prices keep the order they arrived in
RECURSIVE sorted(_, _)
sorted(levels, sign) ==
    IF levels = <<>> THEN <<>>
    ELSE LET n    == Len(levels)
             init == sorted(SubSeq(levels, 1, n - 1), sign)
             x    == levels[n]
             k    == Cardinality({i \in DOMAIN init : sign * init[i][1] <= sign * x[1]})
         IN  SubSeq(init, 1, k) \o <<x>> \o SubSeq(init, k + 1, Len(init))

\* sum(size for _, size in levels)
RECURSIVE sum_sizes(_)
sum_sizes(levels) ==
    IF levels = <<>> THEN 0 ELSE levels[1][2] + sum_sizes(Tail(levels))

\* depth with the [:10] slice forgotten
depth_all(levels) == sum_sizes(levels)

\* sum(size for _, size in levels[:10])
depth(levels) == sum_sizes(SubSeq(levels, 1, Min(DepthLevels, Len(levels))))

\* mid_and_spread with the floor division //
mid_and_spread_floor(ob) ==
    IF ob.asks # <<>> /\ ob.bids # <<>>
    THEN LET best_ask == ob.asks[1][1]
             best_bid == ob.bids[1][1]
             mid      == Rat((best_ask + best_bid) \div 2, 1)
             ob1      == [ob EXCEPT !.mid_price = mid]
         IN  IF mid.num = 0
             THEN [raised |-> TRUE, ob |-> ob1]
             ELSE [raised |-> FALSE,
                   ob |-> [ob1 EXCEPT !.spread_pct =
                              RatMul(RatDiv(Rat(best_ask - best_bid, 1), mid),
                                     Rat(100, 1))]]
    ELSE [raised |-> FALSE, ob |-> ob]

\* mid_and_spread with both figures set to 0 when a side is empty
mid_and_spread_zeroing(ob) ==
    IF ob.asks # <<>> /\ ob.bids # <<>>
    THEN LET best_ask == ob.asks[1][1]
             best_bid == ob.bids[1][1]
             mid      == Rat(best_ask + best_bid, 2)
             ob1      == [ob EXCEPT !.mid_price = mid]
         IN  IF mid.num = 0
             THEN [raised |-> TRUE, ob |-> ob1]
             ELSE [raised |-> FALSE,
                   ob |-> [ob1 EXCEPT !.spread_pct =
                              RatMul(RatDiv(Rat(best_ask - best_bid, 1), mid),
                                     Rat(100, 1))]]
    ELSE [raised |-> FALSE,
          ob |-> [ob EXCEPT !.mid_price = RatZero, !.spread_pct = RatZero]]

\* lines 121-125: the mid price and the spread, when both sides have a level.
\* The division by a mid price of 0 raises ZeroDivisionError after mid_price is
\* assigned.
mid_and_spread(ob) ==
    IF ob.asks # <<>> /\ ob.bids # <<>>
    THEN LET best_ask == ob.asks[1][1]
             best_bid == ob.bids[1][1]
             mid      == Rat(best_ask + best_bid, 2)
             ob1      == [ob EXCEPT !.mid_price = mid]
         IN  IF mid.num = 0
             THEN [raised |-> TRUE, ob |-> ob1]
             ELSE [raised |-> FALSE,
                   ob |-> [ob1 EXCEPT !.spread_pct =
                              RatMul(RatDiv(Rat(best_ask - best_bid, 1), mid),
                                     Rat(100, 1))]]
    ELSE [raised |-> FALSE, ob |-> ob]

\* OrderBook.update(data) at time t: the value returned (ok) and the object's
\* fields afterwards (ob).  The assignments of lines 110-132 take effect one
\* by one, so an exception leaves those made before it in place.
update(ob, d, t) ==
    IF "timestamp" \notin DOMAIN d
    THEN [ok |-> FALSE, ob |-> ob]
    ELSE
    LET ob1 == [ob EXCEPT !.timestamp = d.timestamp] IN
    IF "asks" \notin DOMAIN d \/ levels_raise(d.asks)
    THEN [ok |-> FALSE, ob |-> ob1]
    ELSE
    LET ob2 == [ob1 EXCEPT !.asks = parse_levels(d.asks)] IN
    IF "bids" \notin DOMAIN d \/ levels_raise(d.bids)
    THEN [ok |-> FALSE, ob |-> ob2]
    ELSE
    LET ob3 == [ob2 EXCEPT !.bids = parse_levels(d.bids)]
        ob4 == [ob3 EXCEPT !.asks = sorted(ob3.asks, 1),
                           !.bids = sorted(ob3.bids, -1)]
        ms  == mid_and_spread(ob4)
    IN
    IF ms.raised
    THEN [ok |-> FALSE, ob |-> ms.ob]
    ELSE [ok |-> TRUE,
          ob |-> [ms.ob EXCEPT !.ask_depth = depth(ms.ob.asks),
                               !.bid_depth = depth(ms.ob.bids),
                               !.last_update_time = t]]

-----------------------------------------------------------------------------
(* PerformanceTracker *)

\* PerformanceTracker.__init__(window_size) at time t
TrackerInit(window_size, t) ==
    [ window_size |-> window_size, processing_times |-> <<>>,
      update_times |-> <<>>, last_timestamp |-> t ]

\* push with pop() for pop(0): the newest sample is evicted
push_pop_newest(window, sample, window_size) ==
    LET w == Append(window, sample)
    IN  IF Len(w) > window_size THEN SubSeq(w, 1, Len(w) - 1) ELSE w

\* append(sample), then pop(0) when the list is longer than the window
push(window, sample, window_size) ==
    LET w == Append(window, sample)
    IN  IF Len(w) > window_size THEN Tail(w) ELSE w

\* PerformanceTracker.track_processing(duration_ms)
track_processing(tr, duration_ms) ==
    [tr EXCEPT !.processing_times = push(@, duration_ms, tr.window_size)]

\* PerformanceTracker.track_update() at time t
track_update(tr, t) ==
    [tr EXCEPT !.update_times = push(@, t - tr.last_timestamp, tr.window_size),
               !.last_timestamp = t]

-----------------------------------------------------------------------------
(* Feed records *)

Timestamps == {"t1", "t2"}

\* the price tokens of well-formed generic levels
PriceTokens == {"1", "2"}

\* the sides of exactly k well-formed levels: any sequence of prices (unsorted,
\* repeated), the level at position i carrying the size i
SidesOfLen(k) == {[i \in 1..k |-> <<prices[i], str(i)>>] : prices \in [1..k -> PriceTokens]}

\* well-formed records of at most MaxLevels levels in all, either side empty
GenericRecords ==
    UNION { {[timestamp |-> "t1", asks |-> a, bids |-> b] :
                a \in SidesOfLen(k[1]), b \in SidesOfLen(k[2])}
            : k \in {k \in (0..MaxLevels) \X (0..MaxLevels) : k[1] + k[2] <= MaxLevels} }

\* sides that make the list comprehension raise: a price that is no number, a
\* size that is no number, a level that is no pair, a bad token after a good level
BadSides ==
    { << <<"abc", "1">> >>, << <<"1", "">> >>, << <<"1">> >>,
      << <<"2", "1">>, <<"1", "x">> >> }

\* records update rejects: a missing field, an unparseable token on one side
\* next to a well-formed other side, and a best ask and best bid of 0
MalformedRecords ==
    {[asks |-> a, bids |-> <<>>] : a \in SidesOfLen(1)}
    \cup {[timestamp |-> "t2", bids |-> b] : b \in SidesOfLen(1)}
    \cup {[timestamp |-> "t2", asks |-> a] : a \in SidesOfLen(1)}
    \cup {[timestamp |-> "t2", asks |-> a, bids |-> << <<"1", "1">> >>] : a \in BadSides}
    \cup {[timestamp |-> "t2", asks |-> << <<"2", "1">> >>, bids |-> b] : b \in BadSides}
    \cup {[timestamp |-> t, asks |-> a, bids |-> << <<"abc", "1">> >>] :
            t \in Timestamps, a \in SidesOfLen(0) \cup SidesOfLen(1)}
    \cup {[timestamp |-> "t2", asks |-> << <<"0", "1">> >>, bids |-> << <<"0", "2">> >>]}

\* n levels priced n, n-1, .., 1 and n levels priced 1, 2, .., n, the sizes
\* alternating between 2 and 1
descending_side(n) == [i \in 1..n |-> <<str(n + 1 - i), str(1 + (i % 2))>>]
ascending_side(n) == [i \in 1..n |-> <<str(i), str(1 + (i % 2))>>]

\* records with more levels on a side than the depth figure covers
LongRecords ==
    {[timestamp |-> "t2", asks |-> a, bids |-> b] :
        a \in {descending_side(DepthLevels + 1), descending_side(DepthLevels)},
        b \in {ascending_side(DepthLevels + 1), <<>>}}

\* n levels priced 2, 1, 2, 1, ..: out of order and every price repeated, the
\* level at position i carrying the size i
tied_side(n) == [i \in 1..n |-> <<str(1 + (i % 2)), str(i)>>]

\* records whose sides are both out of order and repeat their prices
TiedRecords ==
    {[timestamp |-> "t2", asks |-> tied_side(n), bids |-> tied_side(n)] : n \in {3, 4}}

\* what the live feed may deliver as a parsed JSON message
LiveRecords == GenericRecords \cup MalformedRecords \cup LongRecords \cup TiedRecords

\* use_mock_data, lines 572-582: ten asks above and ten bids below a random
\* price, all tokens produced by str()
MockPrices == {11, 12}
MockSizes == {1, 2}

mock_data(t, current_price, ask_size, bid_size) ==
    [ timestamp |-> t,
      asks |-> [i \in 1..MockLevels |-> <<str(current_price + i), str(ask_size)>>],
      bids |-> [i \in 1..MockLevels |-> <<str(current_price - i), str(bid_size)>>] ]

-----------------------------------------------------------------------------
(* SlippageModel *)

\* lines 239-240: the state of the loop of lines 242-255 before any level is read
walk_start(quantity) ==
    [ remaining_qty |-> quantity, total_cost |-> RatZero, broke_at |-> 0,
      raised |-> FALSE ]

\* one pass of the loop body over the level (price, size) at position n
walk_level(w, price, size, n) ==
    LET level_value_usd == RatInt(price * size) IN
    IF RatLe(w.remaining_qty, level_value_usd)
    THEN IF level_value_usd.num = 0
         THEN [w EXCEPT !.raised = TRUE]     \* remaining_qty / 0.0
         ELSE LET proportion == RatDiv(w.remaining_qty, level_value_usd)
              IN  [w EXCEPT !.total_cost =
                               RatAdd(@, RatMul(RatMul(RatInt(price), proportion),
                                                w.remaining_qty)),
                            !.remaining_qty = RatZero,
                            !.broke_at = n]
    ELSE [w EXCEPT !.total_cost = RatAdd(@, RatInt(price * size)),
                   !.remaining_qty = RatSub(@, level_value_usd)]

\* the loop of lines 242-255 over the first n levels: it is left by the break of
\* line 251 (broke_at is the position of the level) or by an exception (raised)
RECURSIVE walk(_, _, _)
walk(levels, quantity, n) ==
    IF n = 0 THEN walk_start(quantity)
    ELSE LET w == walk(levels, quantity, n - 1)
         IN  IF w.broke_at # 0 \/ w.raised THEN w
             ELSE walk_level(w, levels[n][1], levels[n][2], n)

\* lines 258-262: what the book could not fill is costed at the last level's
\* price with 1% on top
total_cost_after_walk(levels, w) ==
    IF RatLt(RatZero, w.remaining_qty)
    THEN RatAdd(w.total_cost,
                RatMul(RatMul(RatInt(levels[Len(levels)][1]), w.remaining_qty),
                       Rat(101, 100)))
    ELSE w.total_cost

SlippageCap == Rat(5, 100)          \* 0.05
SlippageFallback == Rat(1, 1000)    \* 0.001

\* bounded with the upper bound forgotten
bounded_below(adjusted_slippage) == RatMax(adjusted_slippage, RatZero)

\* line 280: max(min(adjusted_slippage, 0.05), 0)
bounded(adjusted_slippage) ==
    RatMax(RatMin(adjusted_slippage, SlippageCap), RatZero)

\* lines 265-280, after a walk that raised nothing
slippage_of(ob, quantity, is_buy, levels, w) ==
    LET total_cost      == total_cost_after_walk(levels, w)
        effective_price == IF RatLt(RatZero, quantity)
                           THEN RatDiv(total_cost, quantity) ELSE RatZero
        slippage        == IF RatLt(RatZero, ob.mid_price)
                           THEN IF is_buy
                                THEN RatSub(RatDiv(effective_price, ob.mid_price), RatInt(1))
                                ELSE RatSub(RatInt(1), RatDiv(effective_price, ob.mid_price))
                           ELSE RatZero
        spread_factor   == RatMul(ob.spread_pct, Rat(1, 10))
        side_depth      == IF is_buy THEN ob.ask_depth ELSE ob.bid_depth
        depth_factor    == RatMul(Rat(1, side_depth + 1), Rat(5, 100))
    IN  bounded(RatAdd(RatAdd(slippage, spread_factor), depth_factor))

\* the try block of SlippageModel.estimate, lines 231-280: an exception leaves
\* it (raised) or it returns a value
estimate_try(ob, quantity, is_buy) ==
    LET levels == IF is_buy THEN ob.asks ELSE ob.bids IN
    IF levels = <<>> THEN [raised |-> FALSE, value |-> RatZero]
    ELSE LET w == walk(levels, quantity, Len(levels))
         IN  IF w.raised THEN [raised |-> TRUE, value |-> RatZero]
             ELSE [raised |-> FALSE,
                   value |-> slippage_of(ob, quantity, is_buy, levels, w)]

\* estimate with the except clause forgotten: the exception reaches the caller
estimate_uncaught(ob, quantity, is_buy) == estimate_try(ob, quantity, is_buy)

\* SlippageModel.estimate: what leaves the try block by an exception is caught
\* at line 281 and answered with the fallback
estimate(ob, quantity, is_buy) ==
    LET r == estimate_try(ob, quantity, is_buy)
    IN  IF r.raised THEN [raised |-> FALSE, value |-> SlippageFallback] ELSE r

-----------------------------------------------------------------------------
(* FeeCalculator *)

\* self.fee_tiers, lines 344-351
fee_tiers ==
    [ VIP0 |-> [maker |-> Rat(8, 10000),  taker |-> Rat(10, 10000)],
      VIP1 |-> [maker |-> Rat(6, 10000),  taker |-> Rat(8, 10000)],
      VIP2 |-> [maker |-> Rat(4, 10000),  taker |-> Rat(6, 10000)],
      VIP3 |-> [maker |-> Rat(2, 10000),  taker |-> Rat(4, 10000)],
      VIP4 |-> [maker |-> Rat(0, 10000),  taker |-> Rat(2, 10000)],
      VIP5 |-> [maker |-> Rat(-1, 10000), taker |-> Rat(1, 10000)] ]

\* the weighted fee of lines 372-375 for the rates of one tier
weighted_fee(tier, quantity, maker_proportion) ==
    RatMul(quantity,
           RatAdd(RatMul(tier.maker, maker_proportion),
                  RatMul(tier.taker, RatSub(RatInt(1), maker_proportion))))

\* calculate with the fee floored at zero
calculate_floored(fee_tier, quantity, maker_proportion) ==
    LET tier == IF fee_tier \in DOMAIN fee_tiers
                THEN fee_tiers[fee_tier] ELSE fee_tiers["VIP0"]
    IN  RatMax(weighted_fee(tier, quantity, maker_proportion), RatZero)

\* calculate with self.fee_tiers[fee_tier] for the lookup: an unknown tier
\* raises KeyError, which the except clause answers with quantity * 0.001
calculate_subscript(fee_tier, quantity, maker_proportion) ==
    IF fee_tier \in DOMAIN fee_tiers
    THEN weighted_fee(fee_tiers[fee_tier], quantity, maker_proportion)
    ELSE RatMul(quantity, Rat(1, 1000))

\* FeeCalculator.calculate: self.fee_tiers.get(fee_tier, self.fee_tiers["VIP0"])
\* and the weighted fee; nothing in the try block raises for a string tier
calculate(fee_tier, quantity, maker_proportion) ==
    LET tier == IF fee_tier \in DOMAIN fee_tiers
                THEN fee_tiers[fee_tier] ELSE fee_tiers["VIP0"]
    IN  weighted_fee(tier, quantity, maker_proportion)

-----------------------------------------------------------------------------
(* TradeSimulator *)

\* the fields of the object a reference designates: the program constructs one
\* OrderBook (line 516), so every reference designates it
deref(ref, ob) == ob

\* what float(params.get("quantity", 100)) may be (lines 626 and 656): below
\* zero, zero, less than one level holds, more than a short book holds, the default
Quantities == {RatInt(-1), RatZero, RatInt(1), RatInt(3), RatInt(100)}

DefaultQuantity == RatInt(100)     \* params.get("quantity", 100)
DefaultFeeTier == "VIP0"           \* params.get("feeTier", "VIP0")

\* what params.get("feeTier", "VIP0") may be: the tiers of the table and names
\* that are not in it
FeeTierNames == DOMAIN fee_tiers \cup {"VIP6", ""}

\* MakerTakerModel.predict, lines 314-336, is built on np.log and np.exp, which
\* exact arithmetic does not compute: it is followed for any answer its last
\* two lines allow, max(min(maker_proportion, 1), 0) or the fallback 0.2
MakerProportions == {RatZero, Rat(1, 5), Rat(1, 2), RatInt(1)}

\* AlmgrenChrissModel.calculate_impact, lines 183-209, is built on np.sqrt and
\* np.tanh: it is followed for any answer its last lines allow,
\* min(max(total_impact, 0), 0.1) or the fallback 0.001
Impacts == {RatZero, Rat(1, 1000), Rat(1, 200), Rat(1, 10)}

\* simulate_outcome with the division guarded: a mid price of 0 is answered
\* like a missing snapshot
simulate_outcome_guarded(ref, ob, quantity) ==
    IF ref = "None" THEN "no_data"
    ELSE IF estimate(deref(ref, ob), quantity, TRUE).raised THEN "raised"
    ELSE IF deref(ref, ob).mid_price.num = 0 THEN "no_data"
    ELSE "estimate"

\* TradeSimulator.simulate, lines 456-513, by its outcome: no snapshot, an
\* exception caught at line 511 (one leaving estimate, or quantity / mid_price
\* at line 483 with a mid price of 0), or a cost estimate
simulate_outcome(ref, ob, quantity) ==
    IF ref = "None" THEN "no_data"
    ELSE IF estimate(deref(ref, ob), quantity, TRUE).raised THEN "raised"
    ELSE IF deref(ref, ob).mid_price.num = 0 THEN "raised"
    ELSE "estimate"

\* tracker_after_simulate with the duration recorded whatever the outcome
tracker_after_simulate_always(tr, outcome, duration_ms) ==
    track_processing(tr, duration_ms)

\* tracker_after_simulate with track_update called next to track_processing
tracker_after_simulate_and_update(tr, outcome, duration_ms) ==
    IF outcome = "estimate"
    THEN track_update(track_processing(tr, duration_ms), tr.last_timestamp + 1)
    ELSE track_update(tr, tr.last_timestamp + 1)

\* the tracker after a simulate call that took duration_ms: only a call that
\* reaches line 499 records its duration
tracker_after_simulate(tr, outcome, duration_ms) ==
    IF outcome = "estimate" THEN track_processing(tr, duration_ms) ELSE tr

\* the clock units a simulate call may take between lines 459 and 495
Elapsed == {0, 1}

\* net_cost with the market impact term forgotten
net_cost_without_impact(quantity, expected_slippage, expected_fees, market_impact) ==
    RatAdd(RatMul(quantity, expected_slippage), expected_fees)

\* lines 488-492
net_cost(quantity, expected_slippage, expected_fees, market_impact) ==
    RatAdd(RatAdd(RatMul(quantity, expected_slippage), expected_fees),
           RatMul(quantity, market_impact))

\* lines 466-492: the cost components of an estimate, predict having answered
\* maker_taker_proportion and calculate_impact market_impact
costs(ob, quantity, fee_tier, maker_taker_proportion, market_impact) ==
    LET expected_slippage == estimate(ob, quantity, TRUE).value
        expected_fees     == calculate(fee_tier, quantity, maker_taker_proportion)
    IN  [ expected_slippage |-> expected_slippage,
          expected_fees |-> expected_fees,
          market_impact |-> market_impact,
          net_cost |-> net_cost(quantity, expected_slippage, expected_fees, market_impact),
          maker_taker_proportion |-> maker_taker_proportion ]

\* response with the try statement of lines 461-513 forgotten: the exception
\* leaves simulate
response_uncaught(outcome, est, duration_ms) ==
    CASE outcome = "no_data" -> [error |-> "No orderbook data available"]
      [] outcome = "raised" -> [exception |-> "ZeroDivisionError"]
      [] OTHER -> [ expected_slippage |-> est.expected_slippage,
                    expected_fees |-> est.expected_fees,
                    market_impact |-> est.market_impact,
                    net_cost |-> est.net_cost,
                    maker_taker_proportion |-> est.maker_taker_proportion,
                    internal_latency |-> duration_ms ]

\* the response of simulate (without its "timestamp", the wall-clock date)
response(outcome, est, duration_ms) ==
    CASE outcome = "no_data" -> [error |-> "No orderbook data available"]
      [] outcome = "raised" -> [error |-> "float division by zero"]  \* str(ZeroDivisionError)
      [] OTHER -> [ expected_slippage |-> est.expected_slippage,
                    expected_fees |-> est.expected_fees,
                    market_impact |-> est.market_impact,
                    net_cost |-> est.net_cost,
                    maker_taker_proportion |-> est.maker_taker_proportion,
                    internal_latency |-> duration_ms ]

-----------------------------------------------------------------------------
(* The feed task: lines 539-544 and 585-590 *)

\* reference_after_update with set_orderbook called whatever update returned
reference_after_update_always(ref, ok) == "orderbook"

\* trade_simulator.orderbook after a record: set_orderbook only when update
\* returned True
reference_after_update(ref, ok) == IF ok THEN "orderbook" ELSE ref

\* tracker_after_update with track_update called whatever update returned
tracker_after_update_always(tr, ok, t) == track_update(tr, t)

\* the tracker after a record: track_update only when update returned True
tracker_after_update(tr, ok, t) == IF ok THEN track_update(tr, t) ELSE tr

\* one record d through update, set_orderbook and track_update; the clock has
\* moved on since the last handler ran
process_record(d) ==
    /\ n_received < MaxRecords
    /\ n_received' = n_received + 1
    /\ LET t == now + 1 IN
       \E u \in {update(orderbook, d, t)} :
          /\ data' = d
          /\ accepted' = u.ok
          /\ orderbook' = u.ob
          /\ sim_orderbook' = reference_after_update(sim_orderbook, u.ok)
          /\ tracker' = tracker_after_update(tracker, u.ok, t)
          /\ installed' = IF u.ok THEN <<u.ob>> ELSE installed
          /\ n_accepted' = IF u.ok THEN n_accepted + 1 ELSE n_accepted
          /\ pushed_updates' = IF u.ok
                               THEN Append(pushed_updates, t - tracker.last_timestamp)
                               ELSE pushed_updates
          /\ one_sided_only' = IF u.ok
                               THEN one_sided_only /\ (d.asks = <<>> \/ d.bids = <<>>)
                               ELSE one_sided_only
          /\ now' = t
    /\ UNCHANGED <<result, n_simulate, pushed_processing, call, manager_vars>>

\* websockets.connect(uri) succeeds: the task enters its receive loop
Connect ==
    /\ feed_pc = "connect"
    /\ feed_pc' = "recv"
    /\ UNCHANGED <<orderbook, sim_orderbook, tracker, now, data, accepted, result,
                   installed, n_received, n_accepted, n_simulate,
                   pushed_processing, pushed_updates, call, one_sided_only,
                   manager_vars>>

\* websockets.connect(uri) raises: line 559 awaits use_mock_data()
ConnectFails ==
    /\ feed_pc = "connect"
    /\ feed_pc' = "mock"
    /\ UNCHANGED <<orderbook, sim_orderbook, tracker, now, data, accepted, result,
                   installed, n_received, n_accepted, n_simulate,
                   pushed_processing, pushed_updates, call, one_sided_only,
                   manager_vars>>

\* lines 533-550: a message that is valid JSON
Receive ==
    /\ feed_pc = "recv"
    /\ \E d \in LiveRecords : process_record(d)
    /\ UNCHANGED feed_pc

\* lines 551-552: json.loads raises JSONDecodeError, the loop goes on
ReceiveInvalidJson ==
    /\ feed_pc = "recv"
    /\ n_received < MaxRecords
    /\ n_received' = n_received + 1
    /\ UNCHANGED <<orderbook, sim_orderbook, tracker, now, feed_pc, data, accepted,
                   result, installed, n_accepted, n_simulate, pushed_processing,
                   pushed_updates, call, one_sided_only,
                   manager_vars>>

\* lines 553-555: recv raises (the connection closed), the loop breaks
ReceiveFails ==
    /\ feed_pc = "recv"
    /\ feed_pc' = "sleep"
    /\ UNCHANGED <<orderbook, sim_orderbook, tracker, now, data, accepted, result,
                   installed, n_received, n_accepted, n_simulate,
                   pushed_processing, pushed_updates, call, one_sided_only,
                   manager_vars>>

\* line 562: asyncio.sleep(5) ends and the outer loop connects again
Reconnect ==
    /\ feed_pc = "sleep"
    /\ feed_pc' = "connect"
    /\ UNCHANGED <<orderbook, sim_orderbook, tracker, now, data, accepted, result,
                   installed, n_received, n_accepted, n_simulate,
                   pushed_processing, pushed_updates, call, one_sided_only,
                   manager_vars>>

\* lines 569-599: one round of the mock generator, which never returns
MockRecord ==
    /\ feed_pc = "mock"
    /\ \E t \in Timestamps, p \in MockPrices, sa \in MockSizes, sb \in MockSizes :
          process_record(mock_data(t, p, sa, sb))
    /\ UNCHANGED feed_pc

\* a simulate call (POST /api/simulate or a simulate_trade message) for
\* quantity and fee_tier, whose start_time and end_time are `elapsed` units of
\* the clock apart (the duration is in milliseconds), predict answering
\* maker_taker_proportion and calculate_impact market_impact
simulate(quantity, fee_tier, maker_taker_proportion, market_impact, elapsed) ==
    \E outcome \in {simulate_outcome(sim_orderbook, orderbook, quantity)} :
        LET took        == IF outcome = "estimate" THEN elapsed ELSE 0
            duration_ms == took * 1000
            est         == IF outcome = "estimate"
                           THEN costs(deref(sim_orderbook, orderbook), quantity, fee_tier,
                                      maker_taker_proportion, market_impact)
                           ELSE <<>>
        IN  /\ result' = <<response(outcome, est, duration_ms)>>
            /\ tracker' = tracker_after_simulate(tracker, outcome, duration_ms)
            /\ pushed_processing' =
                  IF outcome = "estimate"
                  THEN Append(pushed_processing, duration_ms)
                  ELSE pushed_processing
            /\ now' = now + 1 + took
            /\ n_simulate' = n_simulate + 1
            /\ call' = << [fn |-> "simulate", quantity |-> quantity,
                            fee_tier |-> fee_tier] >>
            /\ UNCHANGED <<orderbook, sim_orderbook, feed_pc, data, accepted, installed,
                           n_received, n_accepted, pushed_updates, one_sided_only,
                           manager_vars>>

\* a simulate call with the defaults of lines 626-628 while the feed runs; of
\* the answers of predict and calculate_impact the fallbacks are followed here,
\* SimulateAny follows the others
Simulate ==
    /\ n_simulate < MaxSimulate
    /\ \E elapsed \in Elapsed :
          simulate(DefaultQuantity, DefaultFeeTier, Rat(1, 5), Rat(1, 1000), elapsed)

-----------------------------------------------------------------------------
(* ConnectionManager: lines 69-87 *)

\* the websocket objects of a run, named in the order they are accepted
WebSockets == 1..MaxClients

\* the members of a list
elements(list) == {list[i] : i \in DOMAIN list}

\* list.remove(x): the list without the first x it holds
remove(list, x) ==
    LET i == CHOOSE i \in DOMAIN list : list[i] = x /\ \A j \in 1..(i - 1) : list[j] # x
    IN  SubSeq(list, 1, i - 1) \o SubSeq(list, i + 1, Len(list))

\* before any broadcast
DeliveryInit == [message |-> 0, stayed |-> {}, received |-> {}, failed |-> {}]

\* line 83, the for statement asking the list iterator for its next item: the
\* iterator holds the list and an index (0 at first) and yields list[index] of
\* the list as it is now, or ends the loop once index reaches the length
next_connection(message, list, index) ==
    IF index < Len(list)
    THEN << [message |-> message, index |-> index + 1, connection |-> list[index + 1]] >>
    ELSE <<>>

\* lines 75-77: websocket.accept() returned, the new websocket is appended
connect(websocket) ==
    /\ n_connections < MaxClients
    /\ websocket = n_connections + 1
    /\ n_connections' = n_connections + 1
    /\ active_connections' = Append(active_connections, websocket)
    /\ UNCHANGED <<broadcast_it, delivery>>

\* lines 79-80, called at line 645 when the client's receive_text raises
\* WebSocketDisconnect
disconnect(websocket) ==
    /\ websocket \in elements(active_connections)
    /\ active_connections' = remove(active_connections, websocket)
    /\ delivery' = IF broadcast_it # <<>>
                   THEN [delivery EXCEPT !.stayed = @ \ {websocket}]
                   ELSE delivery
    /\ UNCHANGED <<n_connections, broadcast_it>>

\* lines 82-85, called at lines 547 and 593 by the feed task after an accepted
\* update: the loop starts and runs to its first await, the send to the first
\* connection (with an empty list the broadcast is over at once)
broadcast ==
    /\ broadcast_it = <<>>
    /\ delivery.message < MaxBroadcasts
    /\ delivery' = [message |-> delivery.message + 1,
                    stayed |-> elements(active_connections),
                    received |-> {}, failed |-> {}]
    /\ broadcast_it' = next_connection(delivery.message + 1, active_connections, 0)
    /\ UNCHANGED <<n_connections, active_connections>>

\* line 85: the awaited send_text returns, the loop goes on to the next item
send_text_returns ==
    /\ broadcast_it # <<>>
    /\ delivery' = [delivery EXCEPT !.received = @ \cup {broadcast_it[1].connection}]
    /\ broadcast_it' = next_connection(broadcast_it[1].message, active_connections,
                                       broadcast_it[1].index)
    /\ UNCHANGED <<n_connections, active_connections>>

\* lines 86-87: the awaited send_text raises, the error is logged and the loop
\* goes on to the next item
send_text_raises ==
    /\ broadcast_it # <<>>
    /\ delivery' = [delivery EXCEPT !.failed = @ \cup {broadcast_it[1].connection}]
    /\ broadcast_it' = next_connection(broadcast_it[1].message, active_connections,
                                       broadcast_it[1].index)
    /\ UNCHANGED <<n_connections, active_connections>>

\* the variables the ConnectionManager leaves alone
server_vars == <<orderbook, sim_orderbook, tracker, now, feed_pc, data, accepted, result,
                 installed, n_received, n_accepted, n_simulate, pushed_processing,
                 pushed_updates, call, one_sided_only>>

\* a client opens /ws (line 607)
ClientConnects == (\E websocket \in WebSockets : connect(websocket)) /\ UNCHANGED server_vars

\* a client closes its websocket (lines 644-645)
ClientDisconnects == (\E websocket \in WebSockets : disconnect(websocket)) /\ UNCHANGED server_vars

\* the feed task publishes a snapshot
Broadcast == broadcast /\ UNCHANGED server_vars

\* the send the broadcast awaits succeeds
SendReturns == send_text_returns /\ UNCHANGED server_vars

\* the send the broadcast awaits fails
SendRaises == send_text_raises /\ UNCHANGED server_vars

NextBroadcast == ClientConnects \/ ClientDisconnects \/ Broadcast \/ SendReturns \/ SendRaises

\* the state once the module is loaded (lines 516-517) and the feed task is
\* started (line 675)
Init ==
    /\ orderbook = OrderBookInit
    /\ sim_orderbook = "None"
    /\ tracker = TrackerInit(DefaultWindowSize, 0)
    /\ now = 0
    /\ feed_pc = "connect"
    /\ data = [none |-> "None"]
    /\ accepted = FALSE
    /\ result = <<>>
    /\ installed = <<>>
    /\ n_received = 0
    /\ n_accepted = 0
    /\ n_simulate = 0
    /\ pushed_processing = <<>>
    /\ pushed_updates = <<>>
    /\ call = <<>>
    /\ one_sided_only = TRUE
    /\ n_connections = 0
    /\ active_connections = <<>>
    /\ broadcast_it = <<>>
    /\ delivery = DeliveryInit

Next ==
    \/ Connect
    \/ ConnectFails
    \/ Receive
    \/ ReceiveInvalidJson
    \/ ReceiveFails
    \/ Reconnect
    \/ MockRecord
    \/ Simulate

Spec == Init /\ [][Next]_vars

-----------------------------------------------------------------------------
(* The PerformanceTracker alone, for every window size *)

Durations == {1000 * d : d \in 0..MaxDuration}

\* a tracker constructed with any window size of 1..MaxWindow
InitTracker ==
    /\ orderbook = OrderBookInit
    /\ sim_orderbook = "None"
    /\ tracker \in {TrackerInit(n, 0) : n \in 1..MaxWindow}
    /\ now = 0
    /\ feed_pc = "connect"
    /\ data = [none |-> "None"]
    /\ accepted = FALSE
    /\ result = <<>>
    /\ installed = <<>>
    /\ n_received = 0
    /\ n_accepted = 0
    /\ n_simulate = 0
    /\ pushed_processing = <<>>
    /\ pushed_updates = <<>>
    /\ call = <<>>
    /\ one_sided_only = TRUE
    /\ n_connections = 0
    /\ active_connections = <<>>
    /\ broadcast_it = <<>>
    /\ delivery = DeliveryInit

\* time passes between two calls on a tracker
Tick ==
    /\ now < MaxClock
    /\ now' = now + 1
    /\ UNCHANGED <<orderbook, sim_orderbook, tracker, feed_pc, data, accepted,
                   result, installed, n_received, n_accepted, n_simulate,
                   pushed_processing, pushed_updates, call, one_sided_only,
                   manager_vars>>

\* a call of track_processing
TrackProcessing ==
    /\ Len(pushed_processing) < MaxSamples
    /\ \E duration_ms \in Durations :
          /\ tracker' = track_processing(tracker, duration_ms)
          /\ pushed_processing' = Append(pushed_processing, duration_ms)
    /\ UNCHANGED <<orderbook, sim_orderbook, now, feed_pc, data, accepted, result,
                   installed, n_received, n_accepted, n_simulate, pushed_updates,
                   call, one_sided_only,
                   manager_vars>>

\* a call of track_update
TrackUpdate ==
    /\ Len(pushed_updates) < MaxSamples
    /\ tracker' = track_update(tracker, now)
    /\ pushed_updates' = Append(pushed_updates, now - tracker.last_timestamp)
    /\ UNCHANGED <<orderbook, sim_orderbook, now, feed_pc, data, accepted, result,
                   installed, n_received, n_accepted, n_simulate,
                   pushed_processing, call, one_sided_only,
                   manager_vars>>

NextTracker ==
    \/ TrackProcessing
    \/ TrackUpdate
    \/ Tick

SpecTracker == InitTracker /\ [][NextTracker]_vars

-----------------------------------------------------------------------------
(* The SlippageModel alone, on every book the feed leaves behind *)

\* a record whose best ask carries the size 0
ZeroSizeRecords ==
    {[timestamp |-> "t2", asks |-> << <<"1", "0">>, <<"2", "1">> >>,
      bids |-> << <<"1", "1">> >>]}

\* a record update rejects for its bids, after its asks, out of order, are parsed
UnsortedRecords ==
    {[timestamp |-> "t2", asks |-> << <<"2", "1">>, <<"1", "2">> >>,
      bids |-> << <<"abc", "1">> >>]}

\* the records the books below are made of
BookRecords == LiveRecords \cup ZeroSizeRecords \cup UnsortedRecords

\* the fields of the OrderBook object after the feed has handed two records to
\* update, accepted or not
Books ==
    {update(update(OrderBookInit, d1, 1).ob, d2, 2).ob :
        d1 \in BookRecords, d2 \in BookRecords}

InitSlippage ==
    /\ orderbook \in Books
    /\ sim_orderbook = "None"
    /\ tracker = TrackerInit(DefaultWindowSize, 0)
    /\ now = 0
    /\ feed_pc = "connect"
    /\ data = [none |-> "None"]
    /\ accepted = FALSE
    /\ result = <<>>
    /\ installed = <<>>
    /\ n_received = 0
    /\ n_accepted = 0
    /\ n_simulate = 0
    /\ pushed_processing = <<>>
    /\ pushed_updates = <<>>
    /\ call = <<>>
    /\ one_sided_only = TRUE
    /\ n_connections = 0
    /\ active_connections = <<>>
    /\ broadcast_it = <<>>
    /\ delivery = DeliveryInit

\* a call of SlippageModel.estimate on the book: `steps` is the state of the
\* loop after each level, `total_cost` its value at line 265
Estimate ==
    /\ \E quantity \in Quantities, is_buy \in BOOLEAN :
          LET levels == IF is_buy THEN orderbook.asks ELSE orderbook.bids
              w      == walk(levels, quantity, Len(levels))
              r      == estimate(orderbook, quantity, is_buy)
          IN  call' = << [ fn |-> "estimate", quantity |-> quantity,
                           is_buy |-> is_buy, levels |-> levels,
                           steps |-> [n \in 0..Len(levels) |-> walk(levels, quantity, n)],
                           total_cost |-> IF levels = <<>> \/ w.raised
                                          THEN w.total_cost
                                          ELSE total_cost_after_walk(levels, w),
                           raised |-> r.raised, ret |-> r.value ] >>
    /\ UNCHANGED <<orderbook, sim_orderbook, tracker, now, feed_pc, data, accepted,
                   result, installed, n_received, n_accepted, n_simulate,
                   pushed_processing, pushed_updates, one_sided_only,
                   manager_vars>>

NextSlippage == Estimate

SpecSlippage == InitSlippage /\ [][NextSlippage]_vars

-----------------------------------------------------------------------------
(* The FeeCalculator alone *)

\* a call of FeeCalculator.calculate
Calculate ==
    /\ \E fee_tier \in FeeTierNames, quantity \in Quantities,
          maker_proportion \in MakerProportions :
          call' = << [ fn |-> "calculate", fee_tier |-> fee_tier,
                       quantity |-> quantity, maker_proportion |-> maker_proportion,
                       ret |-> calculate(fee_tier, quantity, maker_proportion) ] >>
    /\ UNCHANGED <<orderbook, sim_orderbook, tracker, now, feed_pc, data, accepted,
                   result, installed, n_received, n_accepted, n_simulate,
                   pushed_processing, pushed_updates, one_sided_only,
                   manager_vars>>

NextFees == Calculate

SpecFees == Init /\ [][NextFees]_vars

-----------------------------------------------------------------------------
(* The first simulate call after the first accepted record, for every request *)

\* the state once the feed task has connected and update has accepted a first
\* record, at time 1
InitSimulate ==
    \E d \in BookRecords :
        LET u == update(OrderBookInit, d, 1)
        IN  /\ u.ok
            /\ orderbook = u.ob
            /\ sim_orderbook = reference_after_update("None", u.ok)
            /\ tracker = tracker_after_update(TrackerInit(DefaultWindowSize, 0), u.ok, 1)
            /\ now = 1
            /\ feed_pc = "recv"
            /\ data = d
            /\ accepted = u.ok
            /\ result = <<>>
            /\ installed = <<u.ob>>
            /\ n_received = 1
            /\ n_accepted = 1
            /\ n_simulate = 0
            /\ pushed_processing = <<>>
            /\ pushed_updates = <<1>>
            /\ call = <<>>
            /\ one_sided_only = (d.asks = <<>> \/ d.bids = <<>>)
            /\ n_connections = 0
            /\ active_connections = <<>>
            /\ broadcast_it = <<>>
            /\ delivery = DeliveryInit

\* a simulate call for any request, predict and calculate_impact giving any of
\* their answers
SimulateAny ==
    /\ n_simulate = 0
    /\ \E quantity \in Quantities, fee_tier \in FeeTierNames,
          maker_taker_proportion \in MakerProportions, market_impact \in Impacts,
          elapsed \in Elapsed :
          simulate(quantity, fee_tier, maker_taker_proportion, market_impact, elapsed)

NextSimulate == SimulateAny

SpecSimulate == InitSimulate /\ [][NextSimulate]_vars

-----------------------------------------------------------------------------
(* The ConnectionManager alone: clients come and go while the feed task *)
(* broadcasts                                                            *)

SpecBroadcast == Init /\ [][NextBroadcast]_vars

-----------------------------------------------------------------------------
(* The feed task alone, for as long as it runs.  The first MaxRecords      *)
(* records are followed through update; of the rounds after them only the  *)
(* task's position is.                                                     *)

\* the records the mock generator draws
MockRecords ==
    {mock_data(t, p, sa, sb) : t \in Timestamps, p \in MockPrices,
                               sa \in MockSizes, sb \in MockSizes}

\* lines 569-596: one round of the mock generator up to its sleep
MockRound ==
    /\ feed_pc = "mock"
    /\ feed_pc' = "mock_sleep"
    /\ \/ \E d \in MockRecords : process_record(d)
       \/ /\ n_received >= MaxRecords
          /\ UNCHANGED <<orderbook, sim_orderbook, tracker, now, data, accepted, result,
                         installed, n_received, n_accepted, n_simulate,
                         pushed_processing, pushed_updates, call, one_sided_only,
                         manager_vars>>

\* lines 598-599: asyncio.sleep(1) ends and the while True of line 569 starts
\* its next round; nothing in use_mock_data leaves that loop
MockSleep ==
    /\ feed_pc = "mock_sleep"
    /\ feed_pc' = "mock"
    /\ UNCHANGED <<orderbook, sim_orderbook, tracker, now, data, accepted, result,
                   installed, n_received, n_accepted, n_simulate,
                   pushed_processing, pushed_updates, call, one_sided_only,
                   manager_vars>>

NextFeed ==
    \/ Connect
    \/ ConnectFails
    \/ Receive
    \/ ReceiveInvalidJson
    \/ ReceiveFails
    \/ Reconnect
    \/ MockRound
    \/ MockSleep

\* WF_vars(MockRound), written without ENABLED: MockRound is enabled exactly
\* when feed_pc = "mock" and every MockRound step leaves "mock"
MockRoundIsTaken == []<>(feed_pc # "mock")

\* The event loop resumes a task whose await is over: a connection attempt ends
\* (it succeeds or raises) and a sleep ends; a round of the mock generator has
\* no await before its sleep.  A recv may wait for ever.
SpecFeed ==
    /\ Init
    /\ [][NextFeed]_vars
    /\ WF_vars(Connect \/ ConnectFails)
    /\ WF_vars(Reconnect)
    /\ WF_vars(MockSleep)
    /\ MockRoundIsTaken

-----------------------------------------------------------------------------
(* Properties *)

NoData == [error |-> "No orderbook data available"]

\* the last feed message was a record update rejected
LastRecordRejected == "none" \notin DOMAIN data /\ ~accepted

\* this step is a call of simulate
SimulateStep == n_simulate' = n_simulate + 1

\* this step hands a record to update, which rejects it
RejectStep == n_received' = n_received + 1 /\ data' \in LiveRecords /\ ~accepted'

\* the fields a feed record determines
record_fields(ob) ==
    [ timestamp |-> ob.timestamp, asks |-> ob.asks, bids |-> ob.bids,
      ask_depth |-> ob.ask_depth, bid_depth |-> ob.bid_depth ]

\* C1: when update rejects a record, every field of the installed snapshot is
\* what it was before the call.
C1_RejectLeavesSnapshotUnchanged ==
    [][(RejectStep /\ sim_orderbook = "orderbook") => orderbook' = orderbook]_vars

\* C2: the snapshot object the simulator has been handed never changes afterwards.
C2_HandedSnapshotNeverChanges ==
    [][sim_orderbook = "orderbook"
          => deref(sim_orderbook, orderbook') = deref(sim_orderbook, orderbook)]_vars

\* C3: the timestamp, asks, bids and depths a simulate call reads are those of
\* one accepted feed record, the one installed last.
C3_SimulateReadsOneRecord ==
    [][(SimulateStep /\ sim_orderbook = "orderbook")
          => record_fields(deref(sim_orderbook, orderbook)) = record_fields(installed[1])]_vars

\* C4: as long as no feed record has been accepted, every simulate call answers
\* with the error "No orderbook data available".
C4_NoDataBeforeFirstAccept ==
    (n_accepted = 0 /\ result # <<>>) => result = <<NoData>>

\* a rejected record came in, and a simulate call was answered, before any
\* record was accepted
C4_Witness ==
    /\ n_accepted = 0
    /\ LastRecordRejected
    /\ "timestamp" \in DOMAIN data
    /\ result = <<NoData>>

non_decreasing(levels) ==
    \A i \in 1..(Len(levels) - 1) : levels[i][1] <= levels[i + 1][1]

non_increasing(levels) ==
    \A i \in 1..(Len(levels) - 1) : levels[i][1] >= levels[i + 1][1]

\* how often level x occurs in levels
occurrences(levels, x) == Cardinality({i \in DOMAIN levels : levels[i] = x})

\* a and b hold the same levels, each as often
same_levels(a, b) ==
    /\ Len(a) = Len(b)
    /\ \A i \in DOMAIN b : occurrences(a, b[i]) = occurrences(b, b[i])

\* C5: after an accepted update the asks are non-decreasing and the bids
\* non-increasing by price, and each side holds exactly the record's levels.
C5_SidesSortedAndComplete ==
    accepted =>
        /\ non_decreasing(orderbook.asks)
        /\ non_increasing(orderbook.bids)
        /\ same_levels(orderbook.asks, parse_levels(data.asks))
        /\ same_levels(orderbook.bids, parse_levels(data.bids))

\* the prices of a side repeat and are out of the order the book keeps
repeats_price(side) == \E i, j \in DOMAIN side : i # j /\ side[i][1] = side[j][1]

\* an accepted record whose asks and bids arrive out of order with repeated prices
C5_Witness ==
    /\ accepted
    /\ repeats_price(data.asks)
    /\ repeats_price(data.bids)
    /\ ~non_decreasing(parse_levels(data.asks))
    /\ ~non_increasing(parse_levels(data.bids))

lowest_price(levels) ==
    CHOOSE p \in {levels[i][1] : i \in DOMAIN levels} :
        \A i \in DOMAIN levels : p <= levels[i][1]

highest_price(levels) ==
    CHOOSE p \in {levels[i][1] : i \in DOMAIN levels} :
        \A i \in DOMAIN levels : p >= levels[i][1]

\* C6: after an accepted update of a record with an ask and a bid, mid_price is
\* (lowest ask + highest bid) / 2 and spread_pct is
\* (lowest ask - highest bid) / mid_price * 100.
C6_MidPriceAndSpread ==
    (accepted /\ data.asks # <<>> /\ data.bids # <<>>) =>
        LET a   == lowest_price(parse_levels(data.asks))
            b   == highest_price(parse_levels(data.bids))
            mid == orderbook.mid_price
            spr == orderbook.spread_pct
        IN  /\ mid.den > 0 /\ spr.den > 0
            /\ 2 * mid.num = (a + b) * mid.den
            /\ spr.num * mid.num = 100 * (a - b) * mid.den * spr.den

\* an accepted record whose first ask is not its lowest and whose first bid is
\* not its highest
C6_Witness ==
    /\ accepted
    /\ data.asks # <<>> /\ data.bids # <<>>
    /\ float(data.asks[1][1]) > lowest_price(parse_levels(data.asks))
    /\ float(data.bids[1][1]) < highest_price(parse_levels(data.bids))
    /\ orderbook.mid_price.num > 0

\* the sizes of the first n levels, added up
RECURSIVE sum_first(_, _)
sum_first(levels, n) ==
    IF n = 0 THEN 0 ELSE sum_first(levels, n - 1) + levels[n][2]

\* C7: after an accepted update each depth is the sum of the sizes of the first
\* min(10, number of levels) levels of its side in sorted order; an empty side
\* has depth 0.
C7_DepthIsTopTen ==
    accepted =>
        /\ orderbook.ask_depth = sum_first(orderbook.asks, Min(10, Len(orderbook.asks)))
        /\ orderbook.bid_depth = sum_first(orderbook.bids, Min(10, Len(orderbook.bids)))
        /\ (orderbook.asks = <<>> => orderbook.ask_depth = 0)
        /\ (orderbook.bids = <<>> => orderbook.bid_depth = 0)

\* an accepted record with more than ten asks and no bid: the eleventh ask is
\* left out of the depth
C7_Witness ==
    /\ accepted
    /\ Len(orderbook.asks) > 10
    /\ orderbook.ask_depth < sum_first(orderbook.asks, Len(orderbook.asks))
    /\ orderbook.bids = <<>>
    /\ orderbook.bid_depth = 0

\* C8: the update intervals recorded are as many as the updates accepted (no
\* interval is evicted while fewer than window_size updates were accepted).
C8_OneIntervalPerAcceptedUpdate ==
    Len(tracker.update_times) = n_accepted

\* on the live feed, a record is rejected after one was accepted
C8_Witness ==
    /\ feed_pc = "recv"
    /\ LastRecordRejected
    /\ n_accepted = 1
    /\ Len(tracker.update_times) = 1

\* the last min(n, Len(seq)) elements of seq
last_n(seq, n) == SubSeq(seq, Len(seq) - Min(n, Len(seq)) + 1, Len(seq))

\* C9: each window holds at most window_size samples, and exactly the most
\* recent min(window_size, count) samples pushed, in arrival order.
C9_WindowsHoldMostRecent ==
    /\ Len(tracker.processing_times) <= tracker.window_size
    /\ Len(tracker.update_times) <= tracker.window_size
    /\ tracker.processing_times = last_n(pushed_processing, tracker.window_size)
    /\ tracker.update_times = last_n(pushed_updates, tracker.window_size)

\* window size 3, five samples pushed into each window, the evicted ones
\* differing from the ones kept
C9_Witness ==
    /\ tracker.window_size = 3
    /\ Len(pushed_processing) = 5
    /\ Len(tracker.processing_times) = 3
    /\ pushed_processing[2] # pushed_processing[5]
    /\ Len(pushed_updates) = 5
    /\ Len(tracker.update_times) = 3
    /\ pushed_updates[1] # pushed_updates[4]

\* C10: a simulate call that returns an estimate records its duration once, a
\* simulate call that returns an error payload records nothing.
C10_DurationOncePerEstimate ==
    [][SimulateStep =>
          IF "error" \in DOMAIN result'[1]
          THEN tracker'.processing_times = tracker.processing_times
          ELSE tracker'.processing_times =
                  Append(tracker.processing_times, result'[1].internal_latency)]_vars

\* a simulate call has returned an estimate and its duration is in the window
C10_Witness ==
    /\ result # <<>>
    /\ "internal_latency" \in DOMAIN result[1]
    /\ result[1].internal_latency > 0
    /\ tracker.processing_times = <<result[1].internal_latency>>

ZeroDivision == [error |-> "float division by zero"]

\* C11: with a snapshot installed, a simulate call in which an exception is
\* raised (the division by a mid price of 0) answers with an error payload
\* carrying the message; no simulate call lets an exception reach its caller; and
\* the call leaves the snapshot, the simulator's reference to it and the feed
\* task where they were.
C11_SimulateCatchesExceptions ==
    [][(SimulateStep /\ sim_orderbook = "orderbook") =>
          /\ "exception" \notin DOMAIN result'[1]
          /\ (orderbook.mid_price.num = 0 => result'[1] = ZeroDivision)
          /\ ("error" \in DOMAIN result'[1] =>
                 /\ orderbook' = orderbook
                 /\ sim_orderbook' = sim_orderbook
                 /\ installed' = installed
                 /\ <<feed_pc', data', accepted', n_received', n_accepted'>>
                       = <<feed_pc, data, accepted, n_received, n_accepted>>)]_vars

\* a simulate call failed on a snapshot whose mid price was 0, and the feed then
\* had a record with both sides accepted
C11_Witness ==
    /\ result = <<ZeroDivision>>
    /\ sim_orderbook = "orderbook"
    /\ accepted
    /\ n_accepted = 2
    /\ orderbook.mid_price.num # 0

\* the last call was one of SlippageModel.estimate
EstimateCalled == call # <<>> /\ call[1].fn = "estimate"

\* C12: estimate returns exactly 0 when the side it walks is empty and a value
\* within [0, 0.05] for every other book and quantity.
C12_SlippageZeroOrBounded ==
    EstimateCalled =>
        IF call[1].levels = <<>>
        THEN call[1].ret.num = 0
        ELSE /\ call[1].ret.num >= 0 /\ call[1].ret.den > 0
             /\ 100 * call[1].ret.num <= 5 * call[1].ret.den

\* a sell walked a non-empty bid side and the estimate lies strictly between
\* the two bounds, off the fallback
C12_Witness ==
    /\ EstimateCalled
    /\ ~call[1].is_buy
    /\ call[1].levels # <<>>
    /\ call[1].ret.num > 0
    /\ 100 * call[1].ret.num < 5 * call[1].ret.den
    /\ call[1].ret # SlippageFallback

\* the last call was one of FeeCalculator.calculate
CalculateCalled == call # <<>> /\ call[1].fn = "calculate"

\* x = q * rate, by cross-multiplication
is_product(x, q, rate) ==
    /\ x.den > 0
    /\ x.num * q.den * rate.den = q.num * rate.num * x.den

\* C13: for every tier of the table and every quantity, calculate with a maker
\* probability of 1 yields quantity * maker_rate and with a maker probability of 0
\* quantity * taker_rate; a negative maker rate yields a negative fee.
C13_FeeAtTheExtremes ==
    (CalculateCalled /\ call[1].fee_tier \in DOMAIN fee_tiers) =>
        LET tier == fee_tiers[call[1].fee_tier]
            q    == call[1].quantity
            p    == call[1].maker_proportion
        IN  /\ (p = RatInt(1) => is_product(call[1].ret, q, tier.maker))
            /\ (p = RatZero => is_product(call[1].ret, q, tier.taker))
            /\ (p = RatInt(1) /\ tier.maker.num < 0 /\ q.num > 0 => call[1].ret.num < 0)

\* the rebate tier, an order filled as maker only: the fee is -0.0001 * 100
C13_Witness ==
    /\ CalculateCalled
    /\ call[1].fee_tier = "VIP5"
    /\ call[1].maker_proportion = RatInt(1)
    /\ call[1].quantity = RatInt(100)
    /\ call[1].ret = [num |-> -1, den |-> 100]

\* C14: for a tier name that is not in the table, calculate returns a fee, the
\* one of tier VIP0 for the same quantity and maker probability.
C14_UnknownTierIsVIP0 ==
    (CalculateCalled /\ call[1].fee_tier \notin DOMAIN fee_tiers) =>
        LET q == call[1].quantity
            p == call[1].maker_proportion
            x == call[1].ret
        IN  /\ x.den > 0
            \* x = q * (0.0008 * p + 0.0010 * (1 - p))
            /\ x.num * q.den * p.den * 10000
                  = q.num * (8 * p.num + 10 * (p.den - p.num)) * x.den

\* an unknown tier, half the order filled as maker: 100 * 0.0009
C14_Witness ==
    /\ CalculateCalled
    /\ call[1].fee_tier = "VIP6"
    /\ call[1].maker_proportion = Rat(1, 2)
    /\ call[1].quantity = RatInt(100)
    /\ call[1].ret = [num |-> 9, den |-> 100]

\* the last simulate call returned a cost estimate
EstimateReturned == result # <<>> /\ "net_cost" \in DOMAIN result[1]

\* C16: every cost estimate simulate returns has net_cost = quantity *
\* expected_slippage + expected_fees + quantity * market_impact, for the
\* components of the same response and the quantity of the request.
C16_NetCostIsSumOfComponents ==
    EstimateReturned =>
        LET r == result[1]
            q == call[1].quantity
        IN  r.net_cost = RatAdd(RatAdd(RatMul(q, r.expected_slippage), r.expected_fees),
                                RatMul(q, r.market_impact))

\* an estimate for a quantity of 100 on the rebate tier whose three components
\* are all different from 0, the fee being negative
C16_Witness ==
    /\ EstimateReturned
    /\ call[1].quantity = RatInt(100)
    /\ result[1].expected_slippage.num > 0
    /\ result[1].expected_fees.num < 0
    /\ result[1].market_impact.num > 0
    /\ result[1].net_cost.num > 0

\* this step is an update that returns True
AcceptStep == n_accepted' = n_accepted + 1

\* C17: an accepted update of a record with an empty ask side or an empty bid
\* side leaves mid_price and spread_pct as they were, while asks, bids, the two
\* depths and the timestamp are those of the record.
C17_EmptySideKeepsMidAndSpread ==
    [][(AcceptStep /\ (data'.asks = <<>> \/ data'.bids = <<>>)) =>
          /\ orderbook'.mid_price = orderbook.mid_price
          /\ orderbook'.spread_pct = orderbook.spread_pct
          /\ orderbook'.timestamp = data'.timestamp
          /\ same_levels(orderbook'.asks, parse_levels(data'.asks))
          /\ same_levels(orderbook'.bids, parse_levels(data'.bids))
          /\ non_decreasing(orderbook'.asks)
          /\ non_increasing(orderbook'.bids)
          /\ orderbook'.ask_depth
                = sum_first(orderbook'.asks, Min(10, Len(orderbook'.asks)))
          /\ orderbook'.bid_depth
                = sum_first(orderbook'.bids, Min(10, Len(orderbook'.bids)))]_vars

\* a record without bids was accepted after one with both sides: the book shows
\* the new asks and no bid, and still the mid price and the spread of before
C17_Witness ==
    /\ accepted
    /\ n_accepted = 2
    /\ data.bids = <<>>
    /\ data.asks # <<>>
    /\ orderbook.timestamp = data.timestamp
    /\ orderbook.bids = <<>>
    /\ orderbook.bid_depth = 0
    /\ orderbook.mid_price.num # 0
    /\ orderbook.spread_pct.num # 0

\* C18: a simulate call, whether it returns an estimate or an error, leaves the
\* snapshot's fields, the simulator's reference to it and the update-interval
\* window as they were; of the tracker only processing_times may change.
C18_SimulateOnlyReads ==
    [][SimulateStep =>
          /\ orderbook' = orderbook
          /\ sim_orderbook' = sim_orderbook
          /\ tracker'.update_times = tracker.update_times
          /\ tracker'.last_timestamp = tracker.last_timestamp
          /\ tracker'.window_size = tracker.window_size]_vars

\* a simulate call for a quantity larger than the asks hold returned an
\* estimate: one duration is recorded, and the interval window and the snapshot
\* are those of the accepted record
C18_Witness ==
    /\ EstimateReturned
    /\ call[1].quantity = RatInt(100)
    /\ Len(orderbook.asks) = 1
    /\ Len(tracker.processing_times) = 1
    /\ tracker.update_times = pushed_updates
    /\ installed = <<orderbook>>

\* price * size of the level at position n
notional(levels, n) == RatInt(levels[n][1] * levels[n][2])

\* the walk of the last estimate call took the level at position n in full
consumed_in_full(c, n) ==
    /\ c.steps[n].broke_at = 0
    /\ c.steps[n].remaining_qty = RatSub(c.steps[n - 1].remaining_qty, notional(c.levels, n))

\* C19: the depth walk takes the levels in sorted order (asks by rising, bids by
\* falling price) starting with remaining = quantity; it stops at the first level
\* whose notional is at least what remains; no level leaves a negative remainder;
\* and something remains after the walk only if every level was taken in full,
\* the remainder then being costed at the last level's price times 1.01.
C19_DepthWalk ==
    (EstimateCalled /\ call[1].levels # <<>> /\ ~call[1].steps[Len(call[1].levels)].raised) =>
        LET c     == call[1]
            n_lev == Len(c.levels)
            last  == c.steps[n_lev]
        IN  /\ IF c.is_buy THEN non_decreasing(c.levels) ELSE non_increasing(c.levels)
            /\ c.steps[0].remaining_qty = c.quantity
            /\ \A n \in 1..n_lev :
                  /\ c.steps[n - 1].broke_at = 0 =>
                        IF RatLe(c.steps[n - 1].remaining_qty, notional(c.levels, n))
                        THEN c.steps[n].broke_at = n /\ c.steps[n].remaining_qty = RatZero
                        ELSE consumed_in_full(c, n)
                  /\ c.steps[n - 1].broke_at # 0 => c.steps[n] = c.steps[n - 1]
                  /\ c.steps[n].remaining_qty.num >= 0
            /\ last.remaining_qty.num > 0 =>
                  /\ \A n \in 1..n_lev : consumed_in_full(c, n)
                  /\ c.total_cost =
                        RatAdd(last.total_cost,
                               RatMul(RatMul(RatInt(c.levels[n_lev][1]), last.remaining_qty),
                                      Rat(101, 100)))

\* C20: estimate never raises to its caller, and a call whose walk fails on a
\* division by zero returns the fallback 0.001.
C20_EstimateNeverRaises ==
    EstimateCalled =>
        /\ ~call[1].raised
        /\ call[1].ret.den > 0
        /\ (call[1].steps[Len(call[1].levels)].raised => call[1].ret = SlippageFallback)

\* a buy of quantity 0 on a book whose best ask has the size 0: the walk divides
\* 0 by 0 at the first level, and estimate returns 0.001
C20_Witness ==
    /\ EstimateCalled
    /\ call[1].is_buy
    /\ call[1].quantity = RatZero
    /\ call[1].levels # <<>>
    /\ call[1].levels[1][1] > 0
    /\ call[1].levels[1][2] = 0
    /\ call[1].steps[1].raised
    /\ ~call[1].raised
    /\ call[1].ret = SlippageFallback

\* C23: a simulate call made while a snapshot is installed and every accepted
\* update so far had an empty ask side or an empty bid side finds mid_price at
\* 0, returns the error payload of the division by zero and records no
\* processing duration.
C23_ZeroMidPriceIsAnError ==
    [][(SimulateStep /\ sim_orderbook = "orderbook" /\ one_sided_only) =>
          /\ orderbook.mid_price = RatZero
          /\ result' = <<ZeroDivision>>
          /\ tracker'.processing_times = tracker.processing_times
          /\ pushed_processing' = pushed_processing]_vars

\* two accepted updates, each with an empty side, and then a simulate call that
\* returned the division error with no duration recorded
C23_Witness ==
    /\ one_sided_only
    /\ n_accepted = 2
    /\ installed # <<>>
    /\ installed[1].mid_price = RatZero
    /\ result = <<ZeroDivision>>
    /\ tracker.processing_times = <<>>
    /\ pushed_processing = <<>>

\* C22: once a broadcast is over, send_text was called with its message for
\* every websocket that was in active_connections from its start to its end:
\* each of them received the message or had its own send fail.
C22_BroadcastReachesEverySubscriber ==
    (broadcast_it = <<>> /\ delivery.message >= 1) =>
        delivery.stayed \subseteq (delivery.received \cup delivery.failed)

\* C21: after a failed connection attempt to the live feed (the task is in
\* use_mock_data), the feed task eventually attempts to connect to the live
\* feed again.
C21_FailedAttemptIsRetried ==
    (feed_pc \in {"mock", "mock_sleep"}) ~> (feed_pc = "connect")

=============================================================================
